---- MODULE Spec2Model ----
(***************************************************************************)
(* Model of PackingViewer (src/main.py): the container table and the load  *)
(* table as the user left them, and the handler run_packing, which reads   *)
(* both tables, hands the dimensions to rectpack.newPacker() (offline      *)
(* mode, bin-best-fit over the single bin, MaxRectsBssf, SORT_AREA,        *)
(* rotation enabled: the defaults the call on line 445 selects), and       *)
(* assembles the packed and unpacked lists.                                *)
(*                                                                         *)
(* Numbers are exact decimals counted in hundredths ("2.44" is 244), so    *)
(* the binary rounding of Python floats is outside this model.             *)
(***************************************************************************)
EXTENDS Integers, Sequences, FiniteSets, TLC

VARIABLES
    container_table,  \* row 0 of the container table: the W and L cell texts
    load_table,       \* rows of the load table: the W and L cell texts
    pc,               \* position of the handler: "idle", "packing", "done"
    display_msg,      \* run_packing's keyword argument
    warnings,         \* what the two readers printed during this run
    bin,              \* the (width, height) given to packer.add_bin
    items_to_pack,    \* the list _get_items_for_packing returned
    sorted_rect,      \* Packer._sorted_rect still to be packed
    empty_bins,       \* the bin factories not yet used up (0 or 1 here)
    open_bins,        \* the opened bins, each with max_rects and rectangles
    packed_rects,     \* run_packing's packed_rects
    unpacked_rects,   \* run_packing's unpacked_rects
    outcome,          \* how the handler ended: "none" while it runs
    memo,             \* observer: one remembered (input, result) pair
    row_buttons,      \* per row of the load table: its colour button
    load_row_colours  \* the dict load_row_colours: row index -> colour

vars == <<container_table, load_table, pc, display_msg, warnings, bin,
          items_to_pack, sorted_rect, empty_bins, open_bins, packed_rects,
          unpacked_rects, outcome, memo, row_buttons, load_row_colours>>

----------------------------------------------------------------------------
(* Bounds of the model *)

MaxBin == 3
MaxDim == 2
MaxItems == 2
RunsMaxDim == 1
RunsMaxItems == 1
RawMaxItems == 1
MaxRows == 2

----------------------------------------------------------------------------
(* Cell texts: sequences of one-character strings *)

Digits == <<"0", "1", "2", "3", "4", "5", "6", "7", "8", "9">>

IsDigitChar(c) == \E i \in 1..10 : Digits[i] = c

DigitVal(c) == (CHOOSE i \in 1..10 : Digits[i] = c) - 1

\* str(n) of a Python int
RECURSIVE Str(_)
Str(n) ==
    IF n < 0 THEN <<"-">> \o Str(-n)
    ELSE IF n < 10 THEN <<Digits[n + 1]>>
    ELSE Str(n \div 10) \o <<Digits[(n % 10) + 1]>>

\* str.strip(): leading and trailing blanks removed
RECURSIVE LStrip(_)
LStrip(t) == IF t # <<>> /\ Head(t) = " " THEN LStrip(Tail(t)) ELSE t

RECURSIVE RStrip(_)
RStrip(t) ==
    IF t # <<>> /\ t[Len(t)] = " " THEN RStrip(SubSeq(t, 1, Len(t) - 1)) ELSE t

Strip(t) == RStrip(LStrip(t))

AllDigits(t) == \A i \in 1..Len(t) : IsDigitChar(t[i])

RECURSIVE DigitsValue(_)
DigitsValue(t) ==
    IF t = <<>> THEN 0
    ELSE 10 * DigitsValue(SubSeq(t, 1, Len(t) - 1)) + DigitVal(t[Len(t)])

DotAt(t) == IF \E i \in 1..Len(t) : t[i] = "."
            THEN CHOOSE i \in 1..Len(t) : t[i] = "." /\ \A j \in 1..(i - 1) : t[j] # "."
            ELSE 0

\* An unsigned decimal literal: digits, optionally a point and at most two
\* more digits (the literals of this model), at least one digit in all.
UnsignedOk(t) ==
    LET d == DotAt(t) IN
    IF d = 0 THEN t # <<>> /\ AllDigits(t)
    ELSE LET ip == SubSeq(t, 1, d - 1)
             fp == SubSeq(t, d + 1, Len(t))
         IN  AllDigits(ip) /\ AllDigits(fp) /\ Len(ip) + Len(fp) > 0 /\ Len(fp) <= 2

UnsignedValue(t) ==
    LET d == DotAt(t) IN
    IF d = 0 THEN 100 * DigitsValue(t)
    ELSE LET ip == SubSeq(t, 1, d - 1)
             fp == SubSeq(t, d + 1, Len(t))
         IN  100 * DigitsValue(ip)
             + (IF Len(fp) = 0 THEN 0
                ELSE IF Len(fp) = 1 THEN 10 * DigitsValue(fp)
                ELSE DigitsValue(fp))

\* float(text): blanks around the literal are accepted, then an optional
\* sign; anything else raises ValueError (ok = FALSE).  val is in hundredths.
Float(text) ==
    LET s == Strip(text)
        signed == s # <<>> /\ Head(s) \in {"-", "+"}
        body == IF signed THEN Tail(s) ELSE s
    IN  IF UnsignedOk(body)
        THEN [ok |-> TRUE,
              val |-> IF signed /\ Head(s) = "-" THEN 0 - UnsignedValue(body)
                      ELSE UnsignedValue(body)]
        ELSE [ok |-> FALSE, val |-> 0]

----------------------------------------------------------------------------
(* rectpack geometry: Rectangle(x, y, width, height, rid) *)

\* Python's None, where a number is expected
None == 0 - 1

Rectangle(x, y, w, h) == [x |-> x, y |-> y, width |-> w, height |-> h, rid |-> None]

Left(r) == r.x
Right(r) == r.x + r.width
Bottom(r) == r.y
Top(r) == r.y + r.height

Area(r) == r.width * r.height

\* Variant: only a rectangle lying wholly inside counts
IntersectsWhenContained(a, b) ==
    /\ b.y >= a.y
    /\ b.x >= a.x
    /\ b.y + b.height <= a.y + a.height
    /\ b.x + b.width <= a.x + a.width

\* Rectangle.intersects(rect, edges=False): touching edges and corners do
\* not count
Intersects(a, b) ==
    ~ (Bottom(a) > Top(b) \/ Top(a) < Bottom(b)
       \/ Left(a) > Right(b) \/ Right(a) < Left(b))
    /\ ~ (Bottom(a) = Top(b) \/ Top(a) = Bottom(b)
          \/ Left(a) = Right(b) \/ Right(a) = Left(b))

\* Rectangle.contains(rect)
Contains(a, b) ==
    /\ b.y >= a.y
    /\ b.x >= a.x
    /\ b.y + b.height <= a.y + a.height
    /\ b.x + b.width <= a.x + a.width

----------------------------------------------------------------------------
(* rectpack.newPacker(): the defaults the call selects *)

\* newPacker(rotation=True)
Rotation == TRUE

\* Variant: SORT_NONE
SortNone(rectlist) == rectlist

\* sort_algo=SORT_AREA: sorted(rectlist, reverse=True, key=area); Python's
\* sort is stable, also with reverse=True, so equal areas keep input order.
RECURSIVE InsertByArea(_, _)
InsertByArea(r, sorted) ==
    IF sorted = <<>> THEN <<r>>
    ELSE IF Area(Head(sorted)) >= Area(r)
         THEN <<Head(sorted)>> \o InsertByArea(r, Tail(sorted))
         ELSE <<r>> \o sorted

RECURSIVE SortAreaFrom(_, _)
SortAreaFrom(rectlist, sorted) ==
    IF rectlist = <<>> THEN sorted
    ELSE SortAreaFrom(Tail(rectlist), InsertByArea(Head(rectlist), sorted))

SortArea(rectlist) == SortAreaFrom(rectlist, <<>>)

----------------------------------------------------------------------------
(* MaxRectsBssf: one bin *)

\* Variant: only the width is compared
RectFitnessWidthOnly(m, w, h) ==
    IF w > m.width THEN None
    ELSE IF m.width - w < m.height - h THEN m.width - w ELSE m.height - h

\* MaxRectsBssf._rect_fitness: the shorter leftover side, None if it does
\* not fit
RectFitness(m, w, h) ==
    IF w > m.width \/ h > m.height THEN None
    ELSE IF m.width - w < m.height - h THEN m.width - w ELSE m.height - h

\* The chain fitn + fitr of MaxRects._select_position
FitChain(max_rects, w, h, rot) ==
    LET fitn == [i \in 1..Len(max_rects) |->
                    [fit |-> RectFitness(max_rects[i], w, h),
                     w |-> w, h |-> h, m |-> max_rects[i]]]
        fitr == [i \in 1..Len(max_rects) |->
                    [fit |-> RectFitness(max_rects[i], h, w),
                     w |-> h, h |-> w, m |-> max_rects[i]]]
    IN  SelectSeq(fitn \o (IF rot THEN fitr ELSE <<>>), LAMBDA c : c.fit # None)

\* min(fit, key=first_item): the first entry of the chain with the least
\* fitness
FirstMin(fit) ==
    fit[CHOOSE k \in 1..Len(fit) :
            /\ \A j \in 1..Len(fit) : fit[k].fit <= fit[j].fit
            /\ \A j \in 1..(k - 1) : fit[j].fit > fit[k].fit]

\* return Rectangle(m.x, m.y, w, h), m
Selected(c) ==
    [found |-> TRUE, rect |-> Rectangle(c.m.x, c.m.y, c.w, c.h), max_rect |-> c.m]

\* The end of MaxRects._select_position; [found |-> FALSE] is (None, None)
SelectFrom(fit) ==
    IF fit = <<>> THEN [found |-> FALSE] ELSE Selected(FirstMin(fit))

\* MaxRects._select_position(w, h)
SelectPosition(max_rects, w, h, rot) == SelectFrom(FitChain(max_rects, w, h, rot))

\* Variant: the part to the left of the placed rectangle is not kept
GenerateSplitsNoLeft(m, r) ==
    (IF Right(r) < Right(m)
     THEN <<Rectangle(Right(r), Bottom(m), Right(m) - Right(r), m.height)>>
     ELSE <<>>)
    \o (IF Top(r) < Top(m)
        THEN <<Rectangle(Left(m), Top(r), m.width, Top(m) - Top(r))>>
        ELSE <<>>)
    \o (IF Bottom(r) > Bottom(m)
        THEN <<Rectangle(Left(m), Bottom(m), m.width, Bottom(r) - Bottom(m))>>
        ELSE <<>>)

\* Variant: the part above the placed rectangle starts at its bottom edge
GenerateSplitsFromBottom(m, r) ==
    (IF Left(r) > Left(m)
     THEN <<Rectangle(Left(m), Bottom(m), Left(r) - Left(m), m.height)>>
     ELSE <<>>)
    \o (IF Right(r) < Right(m)
        THEN <<Rectangle(Right(r), Bottom(m), Right(m) - Right(r), m.height)>>
        ELSE <<>>)
    \o (IF Top(r) < Top(m)
        THEN <<Rectangle(Left(m), Bottom(r), m.width, Top(m) - Bottom(r))>>
        ELSE <<>>)
    \o (IF Bottom(r) > Bottom(m)
        THEN <<Rectangle(Left(m), Bottom(m), m.width, Bottom(r) - Bottom(m))>>
        ELSE <<>>)

\* MaxRects._generate_splits(m, r)
GenerateSplits(m, r) ==
    (IF Left(r) > Left(m)
     THEN <<Rectangle(Left(m), Bottom(m), Left(r) - Left(m), m.height)>>
     ELSE <<>>)
    \o (IF Right(r) < Right(m)
        THEN <<Rectangle(Right(r), Bottom(m), Right(m) - Right(r), m.height)>>
        ELSE <<>>)
    \o (IF Top(r) < Top(m)
        THEN <<Rectangle(Left(m), Top(r), m.width, Top(m) - Top(r))>>
        ELSE <<>>)
    \o (IF Bottom(r) > Bottom(m)
        THEN <<Rectangle(Left(m), Bottom(m), m.width, Bottom(r) - Bottom(m))>>
        ELSE <<>>)

\* Variant: the maximal rectangles are left as they were
SplitNone(max_rects, rect) == max_rects

\* MaxRects._split(rect)
RECURSIVE Split(_, _)
Split(max_rects, rect) ==
    IF max_rects = <<>> THEN <<>>
    ELSE (IF Intersects(Head(max_rects), rect)
          THEN GenerateSplits(Head(max_rects), rect)
          ELSE <<Head(max_rects)>>)
         \o Split(Tail(max_rects), rect)

\* Variant: of two nested rectangles the outer one is dropped
RemoveContainers(max_rects) ==
    LET n == Len(max_rects)
        outer == {max_rects[i] : i \in {i \in 1..n :
                    \E j \in 1..n : i # j /\ max_rects[i] # max_rects[j]
                                    /\ Contains(max_rects[i], max_rects[j])}}
    IN  SelectSeq(max_rects, LAMBDA m : m \notin outer)

\* MaxRects._remove_duplicates: `contained` is a set of Rectangles, and the
\* final filter tests membership by Rectangle equality
RemoveDuplicates(max_rects) ==
    LET n == Len(max_rects)
        contained ==
            {max_rects[j] : j \in {j \in 1..n :
                \E i \in 1..(j - 1) : Contains(max_rects[i], max_rects[j])}}
            \cup
            {max_rects[i] : i \in {i \in 1..n :
                \E j \in (i + 1)..n : /\ ~ Contains(max_rects[i], max_rects[j])
                                      /\ Contains(max_rects[j], max_rects[i])}}
    IN  SelectSeq(max_rects, LAMBDA m : m \notin contained)

\* MaxRects.__init__ / reset: one maximal rectangle, the whole surface
NewBin(width, height) ==
    [width |-> width, height |-> height, rot |-> Rotation,
     max_rects |-> <<Rectangle(0, 0, width, height)>>,
     rectangles |-> <<>>]

\* MaxRects.fitness(width, height), after its assert and _select_position
FitnessOf(sel) ==
    IF sel.found THEN RectFitness(sel.max_rect, sel.rect.width, sel.rect.height)
    ELSE None

BinFitness(b, w, h) == FitnessOf(SelectPosition(b.max_rects, w, h, b.rot))

\* MaxRects.add_rect(width, height, rid), after its assert and
\* _select_position: the bin with the rectangle placed, or the bin
\* unchanged when nothing fits
PlaceSelected(b, sel, rid) ==
    IF ~ sel.found THEN b
    ELSE [b EXCEPT
            !.max_rects = RemoveDuplicates(Split(b.max_rects, sel.rect)),
            !.rectangles = Append(b.rectangles, [sel.rect EXCEPT !.rid = rid])]

BinAddRect(b, w, h, rid) ==
    PlaceSelected(b, SelectPosition(b.max_rects, w, h, b.rot), rid)

\* PackingAlgorithm._fits_surface(width, height), after its assert
FitsSurface(b, width, height) ==
    LET swap == Rotation /\ (width > b.width \/ height > b.height)
        w == IF swap THEN height ELSE width
        h == IF swap THEN width ELSE height
    IN  ~ (w > b.width \/ h > b.height)

----------------------------------------------------------------------------
(* rectpack packer: PackerBBF over the bins of one run *)

\* Variant: a rectangle no bin takes is an error
TryEmptyBinsRaising(skipped, empty, open, w, h, rid) ==
    IF \E i \in 1..Len(empty) : FitsSurface(empty[i], w, h)
    THEN [raised |-> FALSE, empty_bins |-> <<>>,
          open_bins |-> Append(open, BinAddRect(NewBin(empty[1].width, empty[1].height),
                                                w, h, rid))]
    ELSE [raised |-> TRUE, empty_bins |-> empty, open_bins |-> open]

\* PackerOnline._new_open_bin followed by the retry loop of
\* PackerBBFMixin.add_rect: the first factory whose surface takes the
\* rectangle is opened (count=1, so the factory is then deleted).
\* BinFactory.fits_inside builds its reference bin first, and Rectangle's
\* constructor asserts width >= 0 and height >= 0; _fits_surface asserts
\* width > 0 and height > 0.
RECURSIVE TryEmptyBins(_, _, _, _, _, _)
RECURSIVE OpenBin(_, _, _, _, _, _, _)
TryEmptyBins(skipped, empty, open, w, h, rid) ==
    IF empty = <<>>
    THEN [raised |-> FALSE, empty_bins |-> skipped, open_bins |-> open]
    ELSE IF ~ (Head(empty).width >= 0 /\ Head(empty).height >= 0) \/ ~ (w > 0 /\ h > 0)
    THEN [raised |-> TRUE, empty_bins |-> skipped \o empty, open_bins |-> open]
    ELSE IF ~ FitsSurface(Head(empty), w, h)
    THEN TryEmptyBins(Append(skipped, Head(empty)), Tail(empty), open, w, h, rid)
    ELSE OpenBin(skipped \o Tail(empty), open,
                 BinAddRect(NewBin(Head(empty).width, Head(empty).height), w, h, rid),
                 w, h, rid, skipped)

\* new_bin.add_rect(width, height, rid) on the bin just opened; should it
\* fail, add_rect asks for the next unopened bin
OpenBin(left, open, b, w, h, rid, skipped) ==
    IF b.rectangles # <<>>
    THEN [raised |-> FALSE, empty_bins |-> left, open_bins |-> Append(open, b)]
    ELSE TryEmptyBins(<<>>, left, Append(open, b), w, h, rid)

\* min(fit, key=first_item) over the open bins that can take the rectangle
BestBin(fitness) ==
    CHOOSE i \in DOMAIN fitness :
        /\ fitness[i] # None
        /\ \A j \in DOMAIN fitness : fitness[j] # None => fitness[i] <= fitness[j]
        /\ \A j \in DOMAIN fitness : (j < i /\ fitness[j] # None) => fitness[j] > fitness[i]

AddToBin(empty, open, i, w, h, rid) ==
    [raised |-> FALSE, empty_bins |-> empty,
     open_bins |-> [open EXCEPT ![i] = BinAddRect(open[i], w, h, rid)]]

AddToBest(empty, open, fitness, w, h, rid) ==
    IF \E i \in DOMAIN fitness : fitness[i] # None
    THEN AddToBin(empty, open, BestBin(fitness), w, h, rid)
    ELSE TryEmptyBins(<<>>, empty, open, w, h, rid)

\* PackerBBFMixin.add_rect(width, height, rid): the open bin of least
\* fitness takes the rectangle, else an unopened bin is tried.  raised
\* stands for the AssertionError of MaxRects.fitness / _fits_surface.
PackerAddRect(empty, open, w, h, rid) ==
    IF open # <<>> /\ ~ (w > 0 /\ h > 0)
    THEN [raised |-> TRUE, empty_bins |-> empty, open_bins |-> open]
    ELSE AddToBest(empty, open, [i \in 1..Len(open) |-> BinFitness(open[i], w, h)],
                   w, h, rid)

\* Variant: one packer kept by the window and used again by every run
StalePacker == [empty_bins |-> empty_bins, open_bins |-> open_bins]

\* rectpack.newPacker(): a packer with no bins and no rectangles
NewPacker == [empty_bins |-> <<>>, open_bins |-> <<>>]

----------------------------------------------------------------------------
(* The two table readers *)

ContainerDefault == 10
ItemDefault == 1

\* PackingViewer._get_container
GetContainer(table) ==
    LET w_text == IF Strip(table.w) # <<>> THEN table.w ELSE Str(ContainerDefault)
        h_text == IF Strip(table.h) # <<>> THEN table.h ELSE Str(ContainerDefault)
        width == Float(w_text)
        height == Float(h_text)
    IN  IF width.ok /\ height.ok
        THEN [width |-> width.val, height |-> height.val, warned |-> FALSE]
        ELSE [width |-> 100 * ContainerDefault, height |-> 100 * ContainerDefault,
              warned |-> TRUE]

\* One row of PackingViewer._get_items_for_packing; name stands for the
\* row's label, "Load <row + 1>"
GetItem(table, row) ==
    LET w_text == IF Strip(table[row].w) # <<>> THEN table[row].w ELSE Str(ItemDefault)
        h_text == IF Strip(table[row].h) # <<>> THEN table[row].h ELSE Str(ItemDefault)
        width == Float(w_text)
        height == Float(h_text)
    IN  IF width.ok /\ height.ok
        THEN [width |-> width.val, height |-> height.val, name |-> row, warned |-> FALSE]
        ELSE [width |-> 100 * ItemDefault, height |-> 100 * ItemDefault, name |-> row,
              warned |-> TRUE]

\* PackingViewer._get_items_for_packing
GetItemsForPacking(table) ==
    [row \in 1..Len(table) |->
        [width |-> GetItem(table, row).width,
         height |-> GetItem(table, row).height,
         name |-> GetItem(table, row).name]]

\* The warnings the two readers print
ReaderWarnings(ctable, ltable) ==
    (IF GetContainer(ctable).warned THEN {[about |-> "container", row |-> 0]} ELSE {})
    \cup {[about |-> "row", row |-> r] : r \in {r \in 1..Len(ltable) : GetItem(ltable, r).warned}}

----------------------------------------------------------------------------
(* run_packing *)

NoMemo == [set |-> FALSE, between |-> FALSE, input |-> <<>>, result |-> <<>>]

\* The rectangles handed to packer.add_rect(width, height, rid=i)
AvailRect(items) ==
    [i \in 1..Len(items) |->
        [x |-> 0, y |-> 0, width |-> items[i].width, height |-> items[i].height,
         rid |-> i - 1]]

\* run_packing up to the first rectangle of packer.pack(): lines 428-460.
\* With no items and display_msg the handler returns after its warning.
\* Packer.pack() hands the bins to the online packer only if there is a
\* rectangle to pack.
RunPackingOn(ctable, ltable, dm) ==
    LET container == GetContainer(ctable)
        items == GetItemsForPacking(ltable)
        packer == NewPacker
    IN  /\ container_table' = ctable
        /\ load_table' = ltable
        /\ display_msg' = dm
        /\ warnings' = ReaderWarnings(ctable, ltable)
        /\ bin' = [width |-> container.width, height |-> container.height]
        /\ items_to_pack' = items
        /\ packed_rects' = <<>>
        /\ unpacked_rects' = <<>>
        /\ IF items = <<>> /\ dm
           THEN /\ pc' = "done"
                /\ outcome' = "no_items"
                /\ UNCHANGED <<sorted_rect, empty_bins, open_bins>>
           ELSE /\ pc' = "packing"
                /\ outcome' = "none"
                /\ sorted_rect' = SortArea(AvailRect(items))
                /\ empty_bins' = IF items = <<>> THEN packer.empty_bins
                                 ELSE Append(packer.empty_bins,
                                             [width |-> container.width,
                                              height |-> container.height])
                /\ open_bins' = packer.open_bins

\* The Run button (display_msg = TRUE) or a call with display_msg = False
RunPacking ==
    /\ pc \in {"idle", "done"}
    /\ \E dm \in BOOLEAN : RunPackingOn(container_table, load_table, dm)
    /\ UNCHANGED <<memo, row_buttons, load_row_colours>>

\* One turn of the loop of Packer.pack(): add_rect of the next rectangle
\* in sorted order.  An AssertionError leaves run_packing, which catches
\* IndexError only.
PackRect ==
    /\ pc = "packing"
    /\ sorted_rect # <<>>
    /\ \E res \in {PackerAddRect(empty_bins, open_bins, Head(sorted_rect).width,
                                  Head(sorted_rect).height, Head(sorted_rect).rid)} :
           /\ empty_bins' = res.empty_bins
           /\ open_bins' = res.open_bins
           /\ IF res.raised
              THEN pc' = "done" /\ outcome' = "AssertionError"
                   /\ sorted_rect' = sorted_rect
              ELSE pc' = "packing" /\ outcome' = "none"
                   /\ sorted_rect' = Tail(sorted_rect)
    /\ UNCHANGED <<container_table, load_table, display_msg, warnings, bin,
                   items_to_pack, packed_rects, unpacked_rects, memo,
                   row_buttons, load_row_colours>>

\* packer[0], lines 470-477: the rectangles of the first bin in the order
\* they were placed.  IndexError ends the loop: at once when no bin was
\* opened, or at the first rid that is no index of packed_items.
PackedRects(open, items) ==
    IF open = <<>> THEN <<>>
    ELSE [k \in {k \in 1..Len(open[1].rectangles) :
                    \A j \in 1..k : open[1].rectangles[j].rid + 1 \in 1..Len(items)} |->
            [rect |-> open[1].rectangles[k],
             item_data |-> items[open[1].rectangles[k].rid + 1]]]

\* Variant: the row number is looked up among the rids
UnpackedRectsOffByOne(packed, items) ==
    LET packed_ids == {packed[k].rect.rid : k \in 1..Len(packed)}
        idx == SelectSeq([i \in 1..Len(items) |-> i], LAMBDA i : i \notin packed_ids)
    IN  [k \in 1..Len(idx) |-> [item_data |-> items[idx[k]]]]

\* lines 479-481: the items whose index is not among packed_ids, in the
\* order of the load table
UnpackedRects(packed, items) ==
    LET packed_ids == {packed[k].rect.rid : k \in 1..Len(packed)}
        idx == SelectSeq([i \in 1..Len(items) |-> i], LAMBDA i : (i - 1) \notin packed_ids)
    IN  [k \in 1..Len(idx) |-> [item_data |-> items[idx[k]]]]

\* Lines 462-503, once pack() has returned
Assemble ==
    /\ pc = "packing"
    /\ sorted_rect = <<>>
    /\ \E packed \in {PackedRects(open_bins, items_to_pack)} :
           /\ packed_rects' = packed
           /\ unpacked_rects' = UnpackedRects(packed, items_to_pack)
    /\ pc' = "done"
    /\ outcome' = "result"
    /\ memo' = IF memo.set /\ memo.input # <<bin, items_to_pack>>
               THEN [memo EXCEPT !.between = TRUE] ELSE memo
    /\ UNCHANGED <<container_table, load_table, display_msg, warnings, bin,
                   items_to_pack, sorted_rect, empty_bins, open_bins,
                   row_buttons, load_row_colours>>

----------------------------------------------------------------------------
(* The load table's rows and the file handlers *)

\* A keyword argument left at None
NoneArg == <<"None">>

\* str.isdigit() of the stripped text
IsDigit(t) == Strip(t) # <<>> /\ AllDigits(Strip(t))

\* PackingViewer._add_load_row_with_color(table, row_index, w=, h=): the
\* dimension cells of the new row.  A missing dimension is copied from the
\* row above when that is all digits, else it is "1.2" / "1.0".
AddLoadRowWithColor(table, row_index, w, h) ==
    LET prev_w == IF w = NoneArg /\ row_index > 0 /\ IsDigit(table[row_index].w)
                  THEN Str(DigitsValue(Strip(table[row_index].w))) ELSE w
        prev_h == IF h = NoneArg /\ row_index > 0 /\ IsDigit(table[row_index].h)
                  THEN Str(DigitsValue(Strip(table[row_index].h))) ELSE h
        new == [w |-> IF prev_w = NoneArg THEN <<"1", ".", "2">> ELSE prev_w,
                h |-> IF prev_h = NoneArg THEN <<"1", ".", "0">> ELSE prev_h]
    IN  SubSeq(table, 1, row_index) \o <<new>> \o SubSeq(table, row_index + 1, Len(table))

\* The colours _generate_random_color and the colour dialog can give, and
\* the colour of a row that has no entry in load_row_colours
Colours == {"red", "blue"}
Grey == "grey"

\* color_rgba left at None
NoColour == "None"

\* The colour button _add_load_row_with_color puts on the new row: its
\* item_color property and the row index its clicked-lambda captured
AddRowButton(buttons, row_index, color) ==
    SubSeq(buttons, 1, row_index) \o <<[color |-> color, row |-> row_index]>>
    \o SubSeq(buttons, row_index + 1, Len(buttons))

\* self.load_row_colours[row_index] = colour
StoreColour(colours, row_index, color) ==
    [k \in DOMAIN colours \cup {row_index} |->
        IF k = row_index THEN color ELSE colours[k]]

\* The rows of a document that carry no colour
MissingColour(loads) == {i \in 1..Len(loads) : loads[i].color = NoColour}

\* final_color_rgba of the i-th row of a document
LoadedColour(loads, random, i) ==
    IF loads[i].color = NoColour THEN random[i] ELSE loads[i].color

\* The buttons and the dict after the loop of load_file over the rows
LoadButtons(loads, random) ==
    [i \in 1..Len(loads) |-> [color |-> LoadedColour(loads, random, i), row |-> i - 1]]

LoadColours(colours, loads, random) ==
    [k \in DOMAIN colours \cup 0..(Len(loads) - 1) |->
        IF k < Len(loads) THEN LoadedColour(loads, random, k + 1) ELSE colours[k]]

\* The row load_file adds when the document has no loads
DefaultLoad == [width |-> NoneArg, height |-> NoneArg, color |-> NoColour]

\* The loop of load_file over data["loads"], lines 406-418
RECURSIVE LoadRows(_, _)
LoadRows(table, loads) ==
    IF loads = <<>> THEN table
    ELSE LoadRows(AddLoadRowWithColor(table, Len(table), Head(loads).width,
                                      Head(loads).height),
                  Tail(loads))

\* PackingViewer.load_file with a readable document: the tables are set
\* from it and run_packing(display_msg=False) is called
LoadFileOn(doc) ==
    LET ctable == [w |-> IF doc.container.width = NoneArg THEN Str(ContainerDefault)
                         ELSE doc.container.width,
                   h |-> IF doc.container.height = NoneArg THEN Str(ContainerDefault)
                         ELSE doc.container.height]
        ltable == IF doc.loads = <<>> THEN AddLoadRowWithColor(<<>>, 0, NoneArg, NoneArg)
                  ELSE LoadRows(<<>>, doc.loads)
        loads == IF doc.loads = <<>> THEN <<DefaultLoad>> ELSE doc.loads
    IN  /\ RunPackingOn(ctable, ltable, FALSE)
        /\ \E random \in [MissingColour(loads) -> Colours] :
              /\ row_buttons' = LoadButtons(loads, random)
              /\ load_row_colours' = LoadColours(load_row_colours, loads, random)

----------------------------------------------------------------------------
(* The tables and documents the model starts from *)

NumTexts(lo, hi) == {Str(n) : n \in lo..hi}

SeqsUpTo(S, n) == UNION {[1..k -> S] : k \in 0..n}

Rows(texts) == [w : texts, h : texts]

\* The tables the constructor builds (lines 178-179, 251-253), and the
\* scenarios of the specification's section 8
StartContainer == [w |-> <<"2", ".", "4", "4">>, h |-> <<"6", ".", "0", "6">>]
StartRow == [w |-> <<"1", ".", "2">>, h |-> <<"1", ".", "0">>]
SixRow == [w |-> <<"6">>, h |-> <<"6">>]

ScenarioTables ==
    { [c |-> StartContainer, l |-> <<StartRow>>],
      [c |-> StartContainer, l |-> <<StartRow, StartRow, StartRow>>],
      [c |-> [w |-> <<"1", ".", "0">>, h |-> <<"1", ".", "0">>],
       l |-> <<[w |-> <<"2", ".", "0">>, h |-> <<"2", ".", "0">>]>>],
      [c |-> [w |-> <<"1", "0">>, h |-> <<"1", "0">>], l |-> <<SixRow, SixRow, SixRow>>] }

\* A table of whole numbers: the container and the rows as (w, h) pairs
NumTable(c, l) ==
    [c |-> [w |-> Str(c[1]), h |-> Str(c[2])],
     l |-> [i \in 1..Len(l) |-> [w |-> Str(l[i][1]), h |-> Str(l[i][2])]]]

\* Further tables with more and larger loads than the bounds enumerate
ProbeTables ==
    { NumTable(<<4, 4>>, <<<<2, 2>>, <<2, 2>>, <<2, 2>>, <<2, 2>>>>),
      NumTable(<<3, 3>>, <<<<1, 1>>, <<2, 2>>, <<3, 1>>, <<1, 2>>>>),
      NumTable(<<5, 3>>, <<<<3, 2>>, <<2, 2>>, <<2, 1>>, <<1, 3>>, <<4, 4>>>>),
      NumTable(<<2, 5>>, <<<<1, 1>>, <<4, 1>>, <<1, 1>>, <<3, 2>>>>),
      NumTable(<<2, 4>>, <<<<1, 3>>, <<1, 1>>>>),
      NumTable(<<4, 4>>, <<<<2, 2>>, <<4, 1>>>>) }

\* Cell texts a user can type: nothing, blanks, a word, and numbers that
\* are negative, zero or positive, one of them padded with blanks
RawTexts == {<<>>, <<" ">>, <<"a">>, <<" ", "2", " ">>} \cup NumTexts(-1, 1)

InitLocals ==
    /\ pc = "idle"
    /\ display_msg = FALSE
    /\ warnings = {}
    /\ bin = [width |-> 0, height |-> 0]
    /\ items_to_pack = <<>>
    /\ sorted_rect = <<>>
    /\ empty_bins = <<>>
    /\ open_bins = <<>>
    /\ packed_rects = <<>>
    /\ unpacked_rects = <<>>
    /\ outcome = "none"
    /\ memo = NoMemo

\* The buttons and the dict of a table whose rows were added one after
\* the other, all with one colour
RowButtons(table, color) == [i \in 1..Len(table) |-> [color |-> color, row |-> i - 1]]

RowColours(table, color) == [k \in 0..(Len(table) - 1) |-> color]

\* Tables of well-formed positive dimensions
Init ==
    /\ \/ /\ container_table \in Rows(NumTexts(1, MaxBin))
          /\ load_table \in SeqsUpTo(Rows(NumTexts(1, MaxDim)), MaxItems)
       \/ \E t \in ScenarioTables \cup ProbeTables :
             container_table = t.c /\ load_table = t.l
    /\ row_buttons = RowButtons(load_table, "red")
    /\ load_row_colours = RowColours(load_table, "red")
    /\ InitLocals

\* Tables of arbitrary cell texts
InitRaw ==
    /\ container_table \in Rows(RawTexts)
    /\ load_table \in SeqsUpTo(Rows(RawTexts), RawMaxItems)
    /\ row_buttons = RowButtons(load_table, "red")
    /\ load_row_colours = RowColours(load_table, "red")
    /\ InitLocals

\* The window as constructed: one row, its colour drawn at random
InitRuns ==
    /\ container_table = StartContainer
    /\ load_table = <<StartRow>>
    /\ \E color \in Colours :
          /\ row_buttons = AddRowButton(<<>>, 0, color)
          /\ load_row_colours = StoreColour(<<>>, 0, color)
    /\ InitLocals

RunsDocs ==
    [container : [width : NumTexts(RunsMaxDim, RunsMaxDim + 1),
                  height : {Str(RunsMaxDim + 1)}],
     loads : SeqsUpTo([width : NumTexts(1, RunsMaxDim), height : NumTexts(1, RunsMaxDim),
                       color : {"red"}],
                      RunsMaxItems)]

LoadFile ==
    /\ pc \in {"idle", "done"}
    /\ \E doc \in RunsDocs : LoadFileOn(doc)
    /\ UNCHANGED memo

\* Observer: remember the input and the result of one finished run
Remember ==
    /\ pc = "done"
    /\ outcome = "result"
    /\ ~ memo.set
    /\ memo' = [set |-> TRUE, between |-> FALSE, input |-> <<bin, items_to_pack>>,
                result |-> <<packed_rects, unpacked_rects>>]
    /\ UNCHANGED <<container_table, load_table, pc, display_msg, warnings, bin,
                   items_to_pack, sorted_rect, empty_bins, open_bins, packed_rects,
                   unpacked_rects, outcome, row_buttons, load_row_colours>>

\* QTableWidget.removeRow(row): the rows below move up by one
RemoveRow(rows, row) == SubSeq(rows, 1, row) \o SubSeq(rows, row + 2, Len(rows))

\* The "Add Load" button: PackingViewer._add_load_row
AddLoadRow ==
    /\ pc \in {"idle", "done"}
    /\ Len(load_table) < MaxRows
    /\ \E color \in Colours :
          /\ load_table' = AddLoadRowWithColor(load_table, Len(load_table),
                                               NoneArg, NoneArg)
          /\ row_buttons' = AddRowButton(row_buttons, Len(load_table), color)
          /\ load_row_colours' = StoreColour(load_row_colours, Len(load_table), color)
    /\ UNCHANGED <<container_table, pc, display_msg, warnings, bin, items_to_pack,
                   sorted_rect, empty_bins, open_bins, packed_rects, unpacked_rects,
                   outcome, memo>>

\* "Delete Item" in the menu of the vertical header:
\* PackingViewer._on_vertical_header_right_click
DeleteRow ==
    /\ pc \in {"idle", "done"}
    /\ \E row \in 0..(Len(load_table) - 1) :
          /\ load_table' = RemoveRow(load_table, row)
          /\ row_buttons' = RemoveRow(row_buttons, row)
    /\ UNCHANGED <<container_table, pc, display_msg, warnings, bin, items_to_pack,
                   sorted_rect, empty_bins, open_bins, packed_rects, unpacked_rects,
                   outcome, memo, load_row_colours>>

\* PackingViewer._on_color_button_clicked(row); choice is what the colour
\* dialog returned, NoColour when it was cancelled
OnColorButtonClicked(row, choice) ==
    IF row \notin DOMAIN load_row_colours \/ choice = NoColour
    THEN UNCHANGED <<row_buttons, load_row_colours>>
    ELSE /\ load_row_colours' = StoreColour(load_row_colours, row, choice)
         /\ row_buttons' = IF row < Len(row_buttons)
                           THEN [row_buttons EXCEPT ![row + 1].color = choice]
                           ELSE row_buttons

\* A click on the colour button shown in some row: its lambda calls the
\* handler with the row index it captured
ClickColorButton ==
    /\ pc \in {"idle", "done"}
    /\ \E r \in 1..Len(row_buttons), choice \in Colours \cup {NoColour} :
          OnColorButtonClicked(row_buttons[r].row, choice)
    /\ UNCHANGED <<container_table, load_table, pc, display_msg, warnings, bin,
                   items_to_pack, sorted_rect, empty_bins, open_bins, packed_rects,
                   unpacked_rects, outcome, memo>>

\* PackingViewer.new_file
NewFile ==
    /\ pc \in {"idle", "done"}
    /\ container_table' = [w |-> <<"1", "0">>, h |-> <<"1", "0">>]
    /\ \E color \in Colours :
          /\ load_table' = AddLoadRowWithColor(<<>>, 0, NoneArg, NoneArg)
          /\ row_buttons' = AddRowButton(<<>>, 0, color)
          /\ load_row_colours' = StoreColour(load_row_colours, 0, color)
    /\ UNCHANGED <<pc, display_msg, warnings, bin, items_to_pack, sorted_rect,
                   empty_bins, open_bins, packed_rects, unpacked_rects, outcome, memo>>

\* Documents as save_file_as writes them: every load with its colour
ColourDocs ==
    [container : {[width |-> <<"1", "0">>, height |-> <<"1", "0">>]},
     loads : SeqsUpTo([width : {<<"1", ".", "2">>}, height : {<<"1", ".", "0">>},
                       color : Colours],
                      MaxRows)]

LoadColourFile ==
    /\ pc \in {"idle", "done"}
    /\ \E doc \in ColourDocs : LoadFileOn(doc)
    /\ UNCHANGED memo

\* line 544: the colour run_packing attaches to the item of a row
ItemColour(row) ==
    IF row \in DOMAIN load_row_colours THEN load_row_colours[row] ELSE Grey

\* lines 377-380: the colour shown on the button of a row, which
\* save_file_as writes
ButtonColour(row) == row_buttons[row + 1].color

Next == RunPacking \/ PackRect \/ Assemble

NextRuns == RunPacking \/ PackRect \/ Assemble \/ LoadFile \/ Remember

Spec == Init /\ [][Next]_vars

SpecRaw == InitRaw /\ [][Next]_vars

SpecRuns == InitRuns /\ [][NextRuns]_vars

NextColours ==
    \/ AddLoadRow
    \/ DeleteRow
    \/ ClickColorButton
    \/ NewFile
    \/ LoadColourFile
    \/ PackRect
    \/ Assemble

SpecColours == InitRuns /\ [][NextColours]_vars


----------------------------------------------------------------------------
(* The claims *)

\* run_packing has returned with its two result lists built
Finished == pc = "done" /\ outcome = "result"

PlacedRect(k) == packed_rects[k].rect

\* The interiors of two rectangles meet
Overlap(a, b) ==
    /\ a.x < b.x + b.width
    /\ b.x < a.x + a.width
    /\ a.y < b.y + b.height
    /\ b.y < a.y + a.height

\* Two rectangles share a piece of an edge but no interior point
TouchOnly(a, b) ==
    /\ ~ Overlap(a, b)
    /\ \/ (a.x + a.width = b.x /\ a.y < b.y + b.height /\ b.y < a.y + a.height)
       \/ (a.y + a.height = b.y /\ a.x < b.x + b.width /\ b.x < a.x + a.width)

\* C1: in the result of a run no two distinct placed rectangles have
\* interiors that intersect; touching along an edge or corner is allowed.
C1_NoOverlap ==
    Finished =>
        \A i, j \in 1..Len(packed_rects) :
            i # j => ~ Overlap(PlacedRect(i), PlacedRect(j))

C1_Witness ==
    /\ Finished
    /\ Len(packed_rects) >= 3
    /\ \E i, j \in 1..Len(packed_rects) : i # j /\ TouchOnly(PlacedRect(i), PlacedRect(j))

\* C2: every placed rectangle lies inside the container:
\* 0 <= x, 0 <= y, x + width <= W, y + height <= H.
C2_Containment ==
    Finished =>
        \A k \in 1..Len(packed_rects) :
            /\ 0 <= PlacedRect(k).x
            /\ 0 <= PlacedRect(k).y
            /\ PlacedRect(k).x + PlacedRect(k).width <= bin.width
            /\ PlacedRect(k).y + PlacedRect(k).height <= bin.height

C2_Witness ==
    /\ Finished
    /\ \E k \in 1..Len(packed_rects) :
          /\ PlacedRect(k).x > 0
          /\ PlacedRect(k).y > 0
          /\ PlacedRect(k).x + PlacedRect(k).width = bin.width
          /\ PlacedRect(k).y + PlacedRect(k).height = bin.height

\* The rows (input ids) named by the placed and by the unpacked list
PlacedIds == [k \in 1..Len(packed_rects) |-> packed_rects[k].item_data.name]
UnpackedIds == [k \in 1..Len(unpacked_rects) |-> unpacked_rects[k].item_data.name]

Occurrences(seq, v) == Cardinality({k \in 1..Len(seq) : seq[k] = v})

\* C3: placed and unpacked partition the input: their lengths add up to
\* the number of items and every input id occurs exactly once across the
\* two lists, also when no item fits and no bin is opened.
C3_Partition ==
    Finished =>
        /\ Len(packed_rects) + Len(unpacked_rects) = Len(items_to_pack)
        /\ \A i \in 1..Len(items_to_pack) :
              Occurrences(PlacedIds, i) + Occurrences(UnpackedIds, i) = 1

C3_Witness ==
    /\ Finished
    /\ Len(packed_rects) >= 2
    /\ Len(unpacked_rects) >= 1

\* C4: items are never rotated: an item is placed only if its own width
\* and height fit the container, and its rectangle has exactly the width
\* and height it was submitted with.
C4_NoRotation ==
    Finished =>
        \A k \in 1..Len(packed_rects) :
            /\ packed_rects[k].item_data.width <= bin.width
            /\ packed_rects[k].item_data.height <= bin.height
            /\ PlacedRect(k).width = packed_rects[k].item_data.width
            /\ PlacedRect(k).height = packed_rects[k].item_data.height

Ascending(seq) == \A k, l \in 1..Len(seq) : k < l => seq[k] < seq[l]

\* C5 as claimed: both result lists follow the input order.
C5_InputOrder == Finished => Ascending(PlacedIds) /\ Ascending(UnpackedIds)

ItemArea(i) == items_to_pack[i].width * items_to_pack[i].height

\* C5 as amended: the unpacked list follows the input order; the placed
\* list follows the order in which the packer placed the items, area
\* descending and, among equal areas, input order.
C5_PlacedInPackingOrder ==
    Finished =>
        /\ Ascending(UnpackedIds)
        /\ \A k, l \in 1..Len(PlacedIds) :
              k < l => \/ ItemArea(PlacedIds[k]) > ItemArea(PlacedIds[l])
                       \/ /\ ItemArea(PlacedIds[k]) = ItemArea(PlacedIds[l])
                          /\ PlacedIds[k] < PlacedIds[l]

C5_Witness ==
    /\ Finished
    /\ \E k, l \in 1..Len(PlacedIds) : k < l /\ PlacedIds[k] > PlacedIds[l]
    /\ Len(unpacked_rects) >= 1

\* C6: a run is a fresh computation: a run on the same (container, items)
\* as a remembered earlier run yields the same placed list (same
\* coordinates, same order) and the same unpacked list, whatever was run
\* in between.
C6_Deterministic ==
    (Finished /\ memo.set /\ memo.input = <<bin, items_to_pack>>)
        => memo.result = <<packed_rects, unpacked_rects>>

C6_Witness ==
    /\ Finished
    /\ memo.set
    /\ memo.between
    /\ memo.input = <<bin, items_to_pack>>
    /\ Len(packed_rects) >= 1

ScenarioE ==
    /\ container_table = [w |-> <<"1", "0">>, h |-> <<"1", "0">>]
    /\ load_table = <<SixRow, SixRow, SixRow>>

\* C8 as claimed: container 10 x 10 and three items 6 x 6: exactly one
\* item is unpacked and at most two are placed.
C8_OneUnpacked ==
    (Finished /\ ScenarioE) => Len(unpacked_rects) = 1 /\ Len(packed_rects) <= 2

\* C8 as amended: container 10 x 10 and three items 6 x 6: exactly one
\* item is placed, at the origin, and exactly two are unpacked.
C8_TwoUnpacked ==
    (Finished /\ ScenarioE) =>
        /\ Len(packed_rects) = 1
        /\ Len(unpacked_rects) = 2
        /\ PlacedRect(1).x = 0 /\ PlacedRect(1).y = 0

C8_Witness == Finished /\ ScenarioE /\ bin = [width |-> 1000, height |-> 1000]

\* The dimensions <= 0 that reached the packer: 0 stands for the container
Offenders ==
    (IF bin.width <= 0 \/ bin.height <= 0 THEN {0} ELSE {})
    \cup {i \in 1..Len(items_to_pack) :
            items_to_pack[i].width <= 0 \/ items_to_pack[i].height <= 0}

\* C9: a container or item dimension <= 0 that reaches the packer, when
\* there is something to pack, makes the run fail; it never ends with a
\* result.
C9_FailFast ==
    (pc = "done" /\ items_to_pack # <<>> /\ Offenders # {})
        => outcome = "AssertionError"

\* A cell the readers cannot use: empty, blank or not a number
Unusable(t) == Strip(t) = <<>> \/ ~ Float(t).ok

\* A cell with a text that is no number
NonNumeric(t) == Strip(t) # <<>> /\ ~ Float(t).ok

\* A cell holding a positive number
Valid(t) == ~ Unusable(t) /\ Float(t).val > 0

ContainerWarned == [about |-> "container", row |-> 0] \in warnings

RowWarned(r) == [about |-> "row", row |-> r] \in warnings

\* C10: an unusable dimension is replaced by its default (10 for the
\* container, 1 for an item) while a valid dimension on the other axis of
\* the same container or item is kept; a text that is no number is
\* reported by a warning; the run goes on.
C10_DefaultPerAxis ==
    pc # "idle" =>
        /\ (Unusable(container_table.w) /\ Valid(container_table.h)) =>
              /\ bin = [width |-> 100 * ContainerDefault,
                        height |-> Float(container_table.h).val]
              /\ NonNumeric(container_table.w) => ContainerWarned
        /\ (Unusable(container_table.h) /\ Valid(container_table.w)) =>
              /\ bin = [width |-> Float(container_table.w).val,
                        height |-> 100 * ContainerDefault]
              /\ NonNumeric(container_table.h) => ContainerWarned
        /\ \A r \in 1..Len(load_table) :
              /\ (Unusable(load_table[r].w) /\ Valid(load_table[r].h)) =>
                    /\ items_to_pack[r].width = 100 * ItemDefault
                    /\ items_to_pack[r].height = Float(load_table[r].h).val
                    /\ NonNumeric(load_table[r].w) => RowWarned(r)
              /\ (Unusable(load_table[r].h) /\ Valid(load_table[r].w)) =>
                    /\ items_to_pack[r].width = Float(load_table[r].w).val
                    /\ items_to_pack[r].height = 100 * ItemDefault
                    /\ NonNumeric(load_table[r].h) => RowWarned(r)

----------------------------------------------------------------------------
(* The claims about the packer's steps *)

\* The order in which packer.pack() hands the rectangles to add_rect
ProcessingOrder == SortArea(AvailRect(items_to_pack))

\* The rectangle as submitted is no larger than the empty container
FitsEmpty(r) == r.width <= bin.width /\ r.height <= bin.height

\* C11: when some item fits the empty container, the first item in
\* processing order that fits is placed with its origin at (0,0); a single
\* fitting item gives exactly one placed rectangle, at (0,0), and an empty
\* unpacked list.
C11_FirstFitAtOrigin ==
    Finished =>
        /\ \A k \in 1..Len(ProcessingOrder) :
              (/\ FitsEmpty(ProcessingOrder[k])
               /\ \A j \in 1..(k - 1) : ~ FitsEmpty(ProcessingOrder[j]))
              => \E p \in 1..Len(packed_rects) :
                    /\ PlacedRect(p).rid = ProcessingOrder[k].rid
                    /\ PlacedRect(p).x = 0
                    /\ PlacedRect(p).y = 0
        /\ (Len(items_to_pack) = 1 /\ FitsEmpty(ProcessingOrder[1]))
              => /\ Len(packed_rects) = 1
                 /\ unpacked_rects = <<>>

\* The maximal free rectangles and the placed rectangles of an opened bin
FreeRects(b) == open_bins[b].max_rects
Placed(b) == open_bins[b].rectangles

\* C12: in every state of a run no free rectangle of the tracker meets the
\* interior of a rectangle placed so far (free rectangles may overlap one
\* another).
C12_FreeClearOfPlaced ==
    \A b \in 1..Len(open_bins) :
        \A i \in 1..Len(FreeRects(b)) :
            \A k \in 1..Len(Placed(b)) :
                ~ Overlap(FreeRects(b)[i], Placed(b)[k])

\* Two placements done, and two free rectangles that overlap one another
C12_Witness ==
    /\ pc = "packing"
    /\ \E b \in 1..Len(open_bins) :
          /\ Len(Placed(b)) >= 2
          /\ \E i, j \in 1..Len(FreeRects(b)) :
                i # j /\ Overlap(FreeRects(b)[i], FreeRects(b)[j])

\* The bin b of open_bins before the step that led to open_bins': as it
\* was, or as _new_open_bin creates it
BinBefore(b) ==
    IF b <= Len(open_bins) THEN open_bins[b]
    ELSE NewBin(open_bins'[b].width, open_bins'[b].height)

\* The step placed a rectangle in bin b
PlacedIn(b) == Len(open_bins'[b].rectangles) = Len(BinBefore(b).rectangles) + 1

LastPlaced(b) == open_bins'[b].rectangles[Len(open_bins'[b].rectangles)]

NonRedundant(free) ==
    \A i, j \in 1..Len(free) : i # j => ~ Contains(free[i], free[j])

\* Every rectangle of cands lies in a rectangle of free
Covers(free, cands) ==
    \A c \in 1..Len(cands) : \E i \in 1..Len(free) : Contains(free[i], cands[c])

\* C13: after the prune step of every placement no free rectangle is
\* contained in another one, and every candidate the split produced is
\* still covered by a free rectangle, so pruning removes no free area.
C13_PruneKeepsArea ==
    [][ \A b \in 1..Len(open_bins') :
            PlacedIn(b) =>
                /\ NonRedundant(open_bins'[b].max_rects)
                /\ Covers(open_bins'[b].max_rects,
                          Split(BinBefore(b).max_rects, LastPlaced(b)))
      ]_vars

\* The free rectangles of bin b after its first n placements, computed
\* again from the empty surface
RECURSIVE FreeAfter(_, _)
FreeAfter(b, n) ==
    IF n = 0 THEN NewBin(open_bins[b].width, open_bins[b].height).max_rects
    ELSE RemoveDuplicates(Split(FreeAfter(b, n - 1), Placed(b)[n]))

\* The candidates of the last placement in bin b, before pruning
LastCandidates(b) == Split(FreeAfter(b, Len(Placed(b)) - 1), Placed(b)[Len(Placed(b))])

\* A placement whose prune step dropped a candidate
C13_Witness ==
    /\ pc = "packing"
    /\ \E b \in 1..Len(open_bins) :
          /\ Len(Placed(b)) >= 2
          /\ FreeAfter(b, Len(Placed(b))) = FreeRects(b)
          /\ Len(LastCandidates(b)) > Len(FreeRects(b))

\* The free rectangles the next rectangle is offered: those of the open
\* bin, or the whole surface of the bin not yet opened
FreeNow ==
    IF open_bins # <<>> THEN open_bins[1].max_rects
    ELSE IF empty_bins # <<>>
         THEN NewBin(empty_bins[1].width, empty_bins[1].height).max_rects
         ELSE <<>>

\* The free rectangle m takes the rectangle r as submitted
FitsFree(m, r) == r.width <= m.width /\ r.height <= m.height

Fitting(free, r) == {i \in 1..Len(free) : FitsFree(free[i], r)}

Min2(a, b) == IF a < b THEN a ELSE b
Max2(a, b) == IF a < b THEN b ELSE a

\* (short-side slack, long-side slack, origin y, origin x)
SlackKey(m, r) ==
    <<Min2(m.width - r.width, m.height - r.height),
      Max2(m.width - r.width, m.height - r.height), m.y, m.x>>

LexLeq(a, b) ==
    \/ a = b
    \/ \E k \in 1..Len(a) : a[k] < b[k] /\ \A j \in 1..(k - 1) : a[j] = b[j]

\* The step is add_rect of the head of sorted_rect, and it returned
AddRectStep == pc = "packing" /\ sorted_rect # <<>> /\ sorted_rect' = Tail(sorted_rect)

\* The step placed the rectangle with this rid at (x, y)
PlacedAt(rid, x, y) ==
    \E b \in 1..Len(open_bins') :
        /\ PlacedIn(b)
        /\ LastPlaced(b).rid = rid
        /\ LastPlaced(b).x = x
        /\ LastPlaced(b).y = y

\* C14: an item with a fitting free rectangle is placed at the origin of
\* the fitting free rectangle of least key (short-side slack, long-side
\* slack, origin y, origin x).
C14_LeastKey ==
    [][ AddRectStep =>
          \A i \in Fitting(FreeNow, Head(sorted_rect)) :
              (\A j \in Fitting(FreeNow, Head(sorted_rect)) :
                    LexLeq(SlackKey(FreeNow[i], Head(sorted_rect)),
                           SlackKey(FreeNow[j], Head(sorted_rect))))
              => PlacedAt(Head(sorted_rect).rid, FreeNow[i].x, FreeNow[i].y)
      ]_vars

\* a comes before b in the order the claim states: area descending, then
\* the longer side descending, then the input index ascending
Precedes(a, b) ==
    \/ Area(a) > Area(b)
    \/ /\ Area(a) = Area(b)
       /\ \/ Max2(a.width, a.height) > Max2(b.width, b.height)
          \/ /\ Max2(a.width, a.height) = Max2(b.width, b.height)
             /\ a.rid < b.rid

\* C15: the rectangles are processed by area descending, ties by the
\* longer side descending, then by input index: at every moment of a run
\* the rectangles still to process are in this order, each input index at
\* most once.
C15_TotalOrder ==
    pc = "packing" =>
        \A k, l \in 1..Len(sorted_rect) :
            k < l => Precedes(sorted_rect[k], sorted_rect[l])

\* The rectangles placed so far in the bin given by add_bin
PlacedNow == IF open_bins # <<>> THEN open_bins[1].rectangles ELSE <<>>

\* The rectangle r as submitted, moved to (x, y), lies inside the container
\* and its interior meets no rectangle placed so far
FreeAt(r, x, y) ==
    /\ 0 <= x /\ 0 <= y
    /\ x + r.width <= bin.width
    /\ y + r.height <= bin.height
    /\ \A k \in 1..Len(PlacedNow) :
          ~ Overlap([x |-> x, y |-> y, width |-> r.width, height |-> r.height],
                    PlacedNow[k])

\* A rectangle that has a free position can be pushed left and down until
\* the container or a placed rectangle stops it, so it also has one whose
\* x is 0 or a right edge and whose y is 0 or a top edge of a placed
\* rectangle; the positions against the far edges are tried as well.
EdgeXs(r) ==
    {0, bin.width - r.width}
    \cup {Right(PlacedNow[k]) : k \in 1..Len(PlacedNow)}
    \cup {Left(PlacedNow[k]) - r.width : k \in 1..Len(PlacedNow)}

EdgeYs(r) ==
    {0, bin.height - r.height}
    \cup {Top(PlacedNow[k]) : k \in 1..Len(PlacedNow)}
    \cup {Bottom(PlacedNow[k]) - r.height : k \in 1..Len(PlacedNow)}

PositionExists(r) == \E x \in EdgeXs(r), y \in EdgeYs(r) : FreeAt(r, x, y)

\* C16: when an item is processed, some free rectangle takes it as
\* submitted if and only if it has a position inside the container that
\* meets no placed rectangle; an item is rejected only when it has none.
C16_FreeSetComplete ==
    [][ AddRectStep =>
          /\ (Fitting(FreeNow, Head(sorted_rect)) # {})
                <=> PositionExists(Head(sorted_rect))
          /\ (\A b \in 1..Len(open_bins') : ~ PlacedIn(b))
                => ~ PositionExists(Head(sorted_rect))
      ]_vars

\* Two rectangles placed, and a rectangle no larger than the container
\* rejected for want of a position
C16_Witness ==
    /\ Finished
    /\ Len(packed_rects) >= 2
    /\ \E k \in 1..Len(unpacked_rects) :
          /\ unpacked_rects[k].item_data.width <= bin.width
          /\ unpacked_rects[k].item_data.height <= bin.height

----------------------------------------------------------------------------
(* The claim about the colours of the rows *)

\* C17: after any sequence of add-row, delete-row, colour-edit, new-file
\* and load-file operations, the colour run_packing attaches to the item
\* of every current row is the colour shown on, and saved from, the colour
\* button of that row.
C17_ColoursFollowRows ==
    \A row \in 0..(Len(load_table) - 1) : ItemColour(row) = ButtonColour(row)

====
